---- MODULE Spec2Model ----
(***************************************************************************)
(* Model of functions/index.js: the /go redirect handler with click        *)
(* logging.  Strings are sequences of one-character strings, so that       *)
(* trimming, the regular expressions, URL parsing and percent-encoding are *)
(* computed character by character as the JavaScript computes them.        *)
(***************************************************************************)
EXTENDS Naturals, Sequences, FiniteSets, TLC

VARIABLES
    pc,          \* position of the handler: "idle" before the request, "responded" after res.send/res.redirect
    req,         \* req.query of the request being handled
    res,         \* the HTTP response: status, Location header, body, Cache-Control header
    writeState,  \* the promise returned by db.collection("clicks").add: "none", "pending", "ok", "failed"
    docData,     \* the record handed to db.collection("clicks").add
    addCalls,    \* number of calls of db.collection("clicks").add
    warnings,    \* number of logger.warn("Click log failed:") calls
    exIn,        \* argument of a stand-alone call of extractAsin
    exOut,       \* its result
    exPc         \* "ready" before the call, "done" after

vars == <<pc, req, res, writeState, docData, addCalls, warnings, exIn, exOut, exPc>>

----------------------------------------------------------------------------
(* Characters and the String methods the source uses *)

LowerLetters == <<"a", "b", "c", "d", "e", "f", "g", "h", "i", "j", "k", "l", "m", "n", "o", "p", "q", "r", "s", "t", "u", "v", "w", "x", "y", "z">>

UpperLetters == <<"A", "B", "C", "D", "E", "F", "G", "H", "I", "J", "K", "L", "M", "N", "O", "P", "Q", "R", "S", "T", "U", "V", "W", "X", "Y", "Z">>

Digits == <<"0", "1", "2", "3", "4", "5", "6", "7", "8", "9">>

Range(s) == {s[i] : i \in 1..Len(s)}

\* the class [A-Z0-9] under the i flag
Alnum == Range(LowerLetters) \cup Range(UpperLetters) \cup Range(Digits)

\* what String.prototype.trim removes (the white space the inputs use)
WhiteSpace == {" ", "\t"}

Min(S) == CHOOSE m \in S : \A k \in S : m <= k

Max(S) == CHOOSE m \in S : \A k \in S : m >= k

UpperChar(c) ==
    IF c \in Range(LowerLetters)
    THEN UpperLetters[CHOOSE i \in 1..Len(LowerLetters) : LowerLetters[i] = c]
    ELSE c

LowerChar(c) ==
    IF c \in Range(UpperLetters)
    THEN LowerLetters[CHOOSE i \in 1..Len(UpperLetters) : UpperLetters[i] = c]
    ELSE c

toUpperCase(s) == [i \in 1..Len(s) |-> UpperChar(s[i])]

toLowerCase(s) == [i \in 1..Len(s) |-> LowerChar(s[i])]

trim(s) ==
    LET keep == {i \in 1..Len(s) : s[i] \notin WhiteSpace}
    IN  IF keep = {} THEN <<>> ELSE SubSeq(s, Min(keep), Max(keep))

\* faulty variant: the end index of slice is taken inclusive
sliceInclusive(s, n) == SubSeq(s, 1, IF Len(s) < n + 1 THEN Len(s) ELSE n + 1)

\* s.slice(0, n)
slice(s, n) == SubSeq(s, 1, IF Len(s) < n THEN Len(s) ELSE n)

\* the literal lit (lower case) occurs in s at position i, compared under the i flag
LiteralAt(s, i, lit) ==
    /\ i + Len(lit) - 1 <= Len(s)
    /\ \A k \in 1..Len(lit) : LowerChar(s[i + k - 1]) = lit[k]

\* JavaScript's null, distinct from every string
null == <<"null">>

\* x || y on strings: the empty string is falsy
OrElse(x, y) == IF x = <<>> THEN y ELSE x

----------------------------------------------------------------------------
(* Config *)

ENABLE_LOGGING == TRUE

DEFAULT_AFF_TAG == <<"s", "h", "o", "p", "4", "m", "e", "0", "e", "-", "2", "1">>

AMAZON_HOST == <<"h", "t", "t", "p", "s", ":", "/", "/", "w", "w", "w", ".", "a", "m", "a", "z", "o", "n", ".", "i", "n">>

ALLOWLIST_HOSTS == {
    <<"w", "w", "w", ".", "a", "m", "a", "z", "o", "n", ".", "i", "n">>,
    <<"a", "m", "a", "z", "o", "n", ".", "i", "n">>,
    <<"a", "m", "z", "n", ".", "t", "o">>,
    <<"m", ".", "a", "m", "a", "z", "o", "n", ".", "i", "n">> }

\* {10} in both patterns of extractAsin
AsinLen == 10

\* slice(0, 120), slice(0, 200), slice(0, 80) of the audit record
SrcMax == 120

CreatedByMax == 200

CreatedAtMax == 80

----------------------------------------------------------------------------
(* extractAsin *)

\* ([A-Z0-9]{10})(?:[/?]|$) matches at position i of s
AsinAt(s, i) ==
    /\ i >= 1
    /\ i + AsinLen - 1 <= Len(s)
    /\ \A k \in i..(i + AsinLen - 1) : s[k] \in Alnum
    /\ \/ i + AsinLen > Len(s)
       \/ s[i + AsinLen] \in {"/", "?"}

\* the alternatives of \/(?:dp|gp\/product|product)\/ , in the order of the pattern
PathPrefixes == << <<"/", "d", "p", "/">>, <<"/", "g", "p", "/", "p", "r", "o", "d", "u", "c", "t", "/">>, <<"/", "p", "r", "o", "d", "u", "c", "t", "/">> >>

\* the whole first pattern matches at position i of s through alternative a
PathAsinAt(s, i, a) ==
    /\ LiteralAt(s, i, PathPrefixes[a])
    /\ AsinAt(s, i + Len(PathPrefixes[a]))

\* str.match(first pattern): capture group 1 of the leftmost match, <<>> when there is none
PathMatch(s) ==
    LET at == {i \in 1..Len(s) : \E a \in 1..Len(PathPrefixes) : PathAsinAt(s, i, a)}
    IN  IF at = {} THEN <<>>
        ELSE LET i == Min(at)
                 a == Min({b \in 1..Len(PathPrefixes) : PathAsinAt(s, i, b)})
                 g == i + Len(PathPrefixes[a])
             IN  SubSeq(s, g, g + AsinLen - 1)

\* str.match(second pattern): capture group 1 of the leftmost match, <<>> when there is none
TokenMatch(s) ==
    LET at == {i \in 1..Len(s) : AsinAt(s, i)}
    IN  IF at = {} THEN <<>>
        ELSE SubSeq(s, Min(at), Min(at) + AsinLen - 1)

\* faulty variant: the two patterns are tried in the other order
extractAsinTokenFirst(s) ==
    IF s = <<>> THEN <<>>
    ELSE LET str == trim(s)
             m1 == PathMatch(str)
             m2 == TokenMatch(str)
         IN  IF m2 # <<>> THEN toUpperCase(m2)
             ELSE IF m1 # <<>> THEN toUpperCase(m1)
             ELSE <<>>

extractAsin(s) ==
    IF s = <<>> THEN <<>>
    ELSE LET str == trim(s)
             m1 == PathMatch(str)
             m2 == TokenMatch(str)
         IN  IF m1 # <<>> THEN toUpperCase(m1)
             ELSE IF m2 # <<>> THEN toUpperCase(m2)
             ELSE <<>>

----------------------------------------------------------------------------
(* encodeURIComponent and buildAmazonAffiliateUrl *)

RECURSIVE Flatten(_)
Flatten(ss) == IF ss = <<>> THEN <<>> ELSE Head(ss) \o Flatten(Tail(ss))

\* UTF-8 percent code of the characters, outside [A-Za-z0-9], that the inputs use
PercentCode(c) ==
    CASE c = " "  -> <<"%", "2", "0">>
      [] c = "\t" -> <<"%", "0", "9">>
      [] c = "#"  -> <<"%", "2", "3">>
      [] c = "%"  -> <<"%", "2", "5">>
      [] c = "&"  -> <<"%", "2", "6">>
      [] c = "'"  -> <<"%", "2", "7">>
      [] c = "/"  -> <<"%", "2", "F">>
      [] c = ":"  -> <<"%", "3", "A">>
      [] c = "="  -> <<"%", "3", "D">>
      [] c = "?"  -> <<"%", "3", "F">>
      [] c = "@"  -> <<"%", "4", "0">>
      [] c = "\\" -> <<"%", "5", "C">>

\* s with the characters of the percent-encode set enc replaced by their codes
PercentEncode(s, enc) ==
    Flatten([i \in 1..Len(s) |-> IF s[i] \in enc THEN PercentCode(s[i]) ELSE <<s[i]>>])

\* the characters encodeURIComponent leaves alone
UriUnreserved == Alnum \cup {"-", "_", ".", "!", "~", "*", "'", "(", ")"}

encodeURIComponent(s) == PercentEncode(s, Range(s) \ UriUnreserved)

\* faulty variant: an empty tag parameter is not replaced by the default tag
buildAmazonAffiliateUrlNoDefault(asin, tag) ==
    AMAZON_HOST \o <<"/", "d", "p", "/">> \o encodeURIComponent(asin)
        \o <<"?", "t", "a", "g", "=">> \o encodeURIComponent(trim(tag))

buildAmazonAffiliateUrl(asin, tag) ==
    LET t == OrElse(trim(OrElse(tag, DEFAULT_AFF_TAG)), DEFAULT_AFF_TAG)
    IN  AMAZON_HOST \o <<"/", "d", "p", "/">> \o encodeURIComponent(asin)
            \o <<"?", "t", "a", "g", "=">> \o encodeURIComponent(t)

----------------------------------------------------------------------------
(* new URL(raw) of the WHATWG URL standard, for absolute URLs whose host   *)
(* is a domain name (no IPv4 or IPv6 literal, no percent-encoded host)     *)

\* index of the first character of s that is in cs, Len(s) + 1 when there is none
FirstOf(s, cs) ==
    LET at == {i \in 1..Len(s) : s[i] \in cs}
    IN  IF at = {} THEN Len(s) + 1 ELSE Min(at)

\* index of the last character of s that is in cs, 0 when there is none
LastOf(s, cs) ==
    LET at == {i \in 1..Len(s) : s[i] \in cs}
    IN  IF at = {} THEN 0 ELSE Max(at)

From(s, i) == SubSeq(s, i, Len(s))

Upto(s, i) == SubSeq(s, 1, i)

RECURSIVE SplitOn(_, _)
SplitOn(s, seps) ==
    LET i == FirstOf(s, seps)
    IN  IF i > Len(s) THEN <<s>>
        ELSE <<Upto(s, i - 1)>> \o SplitOn(From(s, i + 1), seps)

RECURSIVE Join(_, _)
Join(ss, sep) ==
    IF ss = <<>> THEN <<>> ELSE sep \o Head(ss) \o Join(Tail(ss), sep)

DigitVal(c) == (CHOOSE i \in 1..Len(Digits) : Digits[i] = c) - 1

RECURSIVE parseInt(_)
parseInt(s) ==
    IF s = <<>> THEN 0
    ELSE 10 * parseInt(Upto(s, Len(s) - 1)) + DigitVal(s[Len(s)])

RECURSIVE numToString(_)
numToString(n) ==
    IF n < 10 THEN <<Digits[n + 1]>>
    ELSE numToString(n \div 10) \o <<Digits[(n % 10) + 1]>>

\* the special schemes with an authority, and their default ports (file: URLs, with
\* host rules of their own, are left out)
SpecialSchemes == {<<"h", "t", "t", "p">>, <<"h", "t", "t", "p", "s">>, <<"w", "s">>, <<"w", "s", "s">>, <<"f", "t", "p">>}

DefaultPort(scheme) ==
    CASE scheme \in {<<"h", "t", "t", "p">>, <<"w", "s">>}   -> 80
      [] scheme \in {<<"h", "t", "t", "p", "s">>, <<"w", "s", "s">>} -> 443
      [] scheme = <<"f", "t", "p">>                -> 21

MaxPort == 65535

\* forbidden domain code points among the characters the inputs use
ForbiddenHostChars == {" ", "#", "/", ":", "<", ">", "?", "@", "[", "\\", "]", "^", "|", "%"}

\* the percent-encode sets of the standard (without the quotation marks, which no input uses)
QueryEncodeSet == {" ", "#", "<", ">"}

SpecialQueryEncodeSet == QueryEncodeSet \cup {"'"}

FragmentEncodeSet == {" ", "<", ">"}

PathEncodeSet == QueryEncodeSet \cup {"?", "{", "}"}

UserinfoEncodeSet == PathEncodeSet \cup {"/", ":", ";", "=", "@", "[", "\\", "]", "^", "|"}

\* the result of a failed parse: safeUrl returns null
NoUrl == [ok |-> FALSE, hostname |-> <<>>, href |-> <<>>]

\* path state: the segments of the path, dot segments resolved
RECURSIVE PathSegments(_, _, _)
PathSegments(pieces, k, acc) ==
    IF k > Len(pieces) THEN acc
    ELSE LET piece == pieces[k]
             last == (k = Len(pieces))
             dir == IF last THEN << <<>> >> ELSE <<>>
         IN  IF toLowerCase(piece) = <<".", ".">>
             THEN PathSegments(pieces, k + 1,
                               (IF acc = <<>> THEN acc ELSE Upto(acc, Len(acc) - 1)) \o dir)
             ELSE IF piece = <<".">>
             THEN PathSegments(pieces, k + 1, acc \o dir)
             ELSE PathSegments(pieces, k + 1, acc \o <<PercentEncode(piece, PathEncodeSet)>>)

\* authority, path, query and fragment of a special URL; rest follows "scheme:"
ParseSpecial(scheme, rest) ==
    LET body == From(rest, FirstOf(rest, Range(rest) \ {"/", "\\"}))
        authEnd == FirstOf(body, {"/", "\\", "?", "#"})
        auth == Upto(body, authEnd - 1)
        tail == From(body, authEnd)
        atSign == LastOf(auth, {"@"})
        userinfo == Upto(auth, atSign - 1)
        hostport == From(auth, atSign + 1)
        colon == FirstOf(hostport, {":"})
        host == toLowerCase(Upto(hostport, colon - 1))
        portStr == From(hostport, colon + 1)
        port == parseInt(portStr)
        pwAt == FirstOf(userinfo, {":"})
        username == PercentEncode(Upto(userinfo, pwAt - 1), UserinfoEncodeSet)
        password == PercentEncode(From(userinfo, pwAt + 1), UserinfoEncodeSet)
        creds == IF username = <<>> /\ password = <<>> THEN <<>>
                 ELSE username
                      \o (IF password = <<>> THEN <<>> ELSE <<":">> \o password)
                      \o <<"@">>
        hashAt == FirstOf(tail, {"#"})
        beforeHash == Upto(tail, hashAt - 1)
        queryAt == FirstOf(beforeHash, {"?"})
        rawPath == Upto(beforeHash, queryAt - 1)
        pieces == IF rawPath = <<>> THEN << <<>> >>
                  ELSE SplitOn(Tail(rawPath), {"/", "\\"})
        path == Join(PathSegments(pieces, 1, <<>>), <<"/">>)
        query == IF queryAt > Len(beforeHash) THEN <<>>
                 ELSE <<"?">> \o PercentEncode(From(beforeHash, queryAt + 1), SpecialQueryEncodeSet)
        fragment == IF hashAt > Len(tail) THEN <<>>
                    ELSE <<"#">> \o PercentEncode(From(tail, hashAt + 1), FragmentEncodeSet)
    IN  IF \/ host = <<>>
           \/ Range(host) \cap ForbiddenHostChars # {}
           \/ Range(portStr) \ Range(Digits) # {}
           \/ port > MaxPort
        THEN NoUrl
        ELSE [ok |-> TRUE,
              hostname |-> host,
              href |-> scheme \o <<":", "/", "/">> \o creds \o host
                       \o (IF portStr = <<>> \/ port = DefaultPort(scheme) THEN <<>>
                           ELSE <<":">> \o numToString(port))
                       \o path \o query \o fragment]

\* a URL of another scheme: an opaque host when "//" follows the scheme, no host otherwise
ParseOther(scheme, rest) ==
    IF LiteralAt(rest, 1, <<"/", "/">>)
    THEN LET body == From(rest, 3)
             authEnd == FirstOf(body, {"/", "?", "#"})
             auth == Upto(body, authEnd - 1)
             hostport == From(auth, LastOf(auth, {"@"}) + 1)
             host == Upto(hostport, FirstOf(hostport, {":"}) - 1)
         IN  IF Range(host) \cap (ForbiddenHostChars \ {"%"}) # {} THEN NoUrl
             ELSE [ok |-> TRUE, hostname |-> host, href |-> scheme \o <<":">> \o rest]
    ELSE [ok |-> TRUE, hostname |-> <<>>, href |-> scheme \o <<":">> \o rest]

safeUrl(raw) ==
    LET noTabs == SelectSeq(raw, LAMBDA c : c # "\t")
        input == LET keep == {i \in 1..Len(noTabs) : noTabs[i] # " "}
                 IN  IF keep = {} THEN <<>> ELSE SubSeq(noTabs, Min(keep), Max(keep))
        colon == FirstOf(input, {":"})
        scheme == toLowerCase(Upto(input, colon - 1))
    IN  IF \/ colon > Len(input)
           \/ colon = 1
           \/ input[1] \notin (Alnum \ Range(Digits))
           \/ Range(scheme) \ (Alnum \cup {"+", "-", "."}) # {}
        THEN NoUrl
        ELSE IF scheme \in SpecialSchemes
        THEN ParseSpecial(scheme, From(input, colon + 1))
        ELSE ParseOther(scheme, From(input, colon + 1))

\* faulty variant: the host is accepted when it begins with an allowlisted host
isAllowedTargetPrefix(urlObj) ==
    IF ~urlObj.ok THEN FALSE
    ELSE LET host == toLowerCase(OrElse(urlObj.hostname, <<>>))
         IN  \E h \in ALLOWLIST_HOSTS :
                 /\ Len(host) >= Len(h)
                 /\ Upto(host, Len(h)) = h

\* faulty variant: the host is accepted when it ends with an allowlisted host
isAllowedTargetSuffix(urlObj) ==
    IF ~urlObj.ok THEN FALSE
    ELSE LET host == toLowerCase(OrElse(urlObj.hostname, <<>>))
         IN  \E h \in ALLOWLIST_HOSTS :
                 /\ Len(host) >= Len(h)
                 /\ From(host, Len(host) - Len(h) + 1) = h

isAllowedTarget(urlObj) ==
    IF ~urlObj.ok THEN FALSE
    ELSE LET host == toLowerCase(OrElse(urlObj.hostname, <<>>))
         IN  host \in ALLOWLIST_HOSTS

----------------------------------------------------------------------------
(* exports.go *)

\* faulty variant: the pattern stops at the colon
hasHttpSchemeNoSlashes(to) ==
    \/ LiteralAt(to, 1, <<"h", "t", "t", "p", ":">>)
    \/ LiteralAt(to, 1, <<"h", "t", "t", "p", "s", ":">>)

\* /^https?:\/\//i.test(to)
hasHttpScheme(to) ==
    \/ LiteralAt(to, 1, <<"h", "t", "t", "p", ":", "/", "/">>)
    \/ LiteralAt(to, 1, <<"h", "t", "t", "p", "s", ":", "/", "/">>)

InvalidTo == "Invalid 'to' URL (must start with http/https)."

HostNotAllowed == "Target host not allowed."

MissingTarget == "Missing target. Provide ?to=<url> or ?asin=<ASIN>."

NoStore == "no-store, max-age=0"

\* the target resolution: a 400 with its message, or the targetUrl to redirect to
ResolveTarget(q) ==
    LET to == trim(q.to)
        asinParam == trim(q.asin)
        tagParam == trim(q.tag)
        u == safeUrl(to)
        asin == extractAsin(asinParam)
    IN  IF to # <<>>
        THEN IF ~hasHttpScheme(to)
             THEN [status |-> 400, body |-> InvalidTo, targetUrl |-> <<>>]
             ELSE IF ~isAllowedTarget(u)
             THEN [status |-> 400, body |-> HostNotAllowed, targetUrl |-> <<>>]
             ELSE [status |-> 302, body |-> "", targetUrl |-> u.href]
        ELSE IF asin = <<>>
             THEN [status |-> 400, body |-> MissingTarget, targetUrl |-> <<>>]
             ELSE [status |-> 302, body |-> "",
                   targetUrl |-> buildAmazonAffiliateUrl(asin, tagParam)]

serverTimestamp == <<"FieldValue.serverTimestamp()">>

\* faulty variant: the identifier of the record is taken from the asin parameter alone
ClickDocAsinParamOnly(q, targetUrl) ==
    LET tagParam == trim(q.tag)
        ip == OrElse(trim(Head(SplitOn(q.xff, {","}))), OrElse(q.ip, <<>>))
        asinForLog == OrElse(extractAsin(OrElse(q.asin, <<>>)), <<>>)
    IN  [targetUrl |-> targetUrl,
         asin |-> OrElse(asinForLog, null),
         tag |-> OrElse(OrElse(tagParam, DEFAULT_AFF_TAG), DEFAULT_AFF_TAG),
         src |-> OrElse(slice(q.src, SrcMax), null),
         created_by |-> OrElse(slice(q.created_by, CreatedByMax), null),
         created_at |-> OrElse(slice(q.created_at, CreatedAtMax), null),
         ip |-> OrElse(ip, null),
         userAgent |-> OrElse(q.ua, null),
         ts |-> serverTimestamp]

\* docData, the click record
ClickDoc(q, targetUrl) ==
    LET tagParam == trim(q.tag)
        ip == OrElse(trim(Head(SplitOn(q.xff, {","}))), OrElse(q.ip, <<>>))
        asinForLog == OrElse(extractAsin(OrElse(q.asin, <<>>)),
                             OrElse(extractAsin(targetUrl), <<>>))
    IN  [targetUrl |-> targetUrl,
         asin |-> OrElse(asinForLog, null),
         tag |-> OrElse(OrElse(tagParam, DEFAULT_AFF_TAG), DEFAULT_AFF_TAG),
         src |-> OrElse(slice(q.src, SrcMax), null),
         created_by |-> OrElse(slice(q.created_by, CreatedByMax), null),
         created_at |-> OrElse(slice(q.created_at, CreatedAtMax), null),
         ip |-> OrElse(ip, null),
         userAgent |-> OrElse(q.ua, null),
         ts |-> serverTimestamp]

NoDoc == [targetUrl |-> <<>>, asin |-> null, tag |-> <<>>, src |-> null,
          created_by |-> null, created_at |-> null, ip |-> null,
          userAgent |-> null, ts |-> <<>>]

NoRequest == [to |-> <<>>, asin |-> <<>>, tag |-> <<>>, src |-> <<>>,
              created_by |-> <<>>, created_at |-> <<>>, xff |-> <<>>,
              ip |-> <<>>, ua |-> <<>>]

NoResponse == [status |-> 0, location |-> <<>>, body |-> "", cacheControl |-> ""]

\* the handler, from its first line to the return of its response; the promise of
\* add() is left pending behind it.  No call of the try block throws on the query
\* strings a request can carry, so the catch that answers 500 is not taken.
go(q) ==
    /\ pc = "idle"
    /\ pc' = "responded"
    /\ req' = q
    /\ LET r == ResolveTarget(q)
       IN  IF r.status = 302
           THEN /\ res' = [status |-> 302, location |-> r.targetUrl, body |-> "",
                           cacheControl |-> NoStore]
                /\ IF ENABLE_LOGGING
                   THEN /\ docData' = ClickDoc(q, r.targetUrl)
                        /\ addCalls' = addCalls + 1
                        /\ writeState' = "pending"
                   ELSE UNCHANGED <<docData, addCalls, writeState>>
           ELSE /\ res' = [status |-> r.status, location |-> <<>>, body |-> r.body,
                           cacheControl |-> NoStore]
                /\ UNCHANGED <<docData, addCalls, writeState>>
    /\ UNCHANGED <<warnings, exIn, exOut, exPc>>

\* the write succeeds: the promise of add() resolves, nothing is chained on it
addResolved ==
    /\ writeState = "pending"
    /\ writeState' = "ok"
    /\ UNCHANGED <<pc, req, res, docData, addCalls, warnings, exIn, exOut, exPc>>

\* faulty variant: the failure of the write replaces the response
addRejectedServerError ==
    /\ writeState = "pending"
    /\ writeState' = "failed"
    /\ warnings' = warnings + 1
    /\ res' = [status |-> 500, location |-> <<>>, body |-> "Server error",
               cacheControl |-> NoStore]
    /\ UNCHANGED <<pc, req, docData, addCalls, exIn, exOut, exPc>>

\* faulty variant: the failure of the write is answered by a second add()
addRejectedRetry ==
    /\ writeState = "pending"
    /\ addCalls < 2
    /\ writeState' = "pending"
    /\ warnings' = warnings + 1
    /\ addCalls' = addCalls + 1
    /\ UNCHANGED <<pc, req, res, docData, exIn, exOut, exPc>>

\* the write fails: the promise of add() rejects and the .catch callback logs a warning
addRejected ==
    /\ writeState = "pending"
    /\ writeState' = "failed"
    /\ warnings' = warnings + 1
    /\ UNCHANGED <<pc, req, res, docData, addCalls, exIn, exOut, exPc>>

----------------------------------------------------------------------------
(* The requests and the extractor inputs the model draws from *)

\* how far a label of a request exceeds the length the record keeps
MaxOver == 1

LabelLetters == <<"a", "b", "c", "d", "e", "f", "g">>

\* a label of n characters, no two neighbours equal
Label(n) == [i \in 1..n |-> LabelLetters[((i - 1) % Len(LabelLetters)) + 1]]

ToSchemes == {<<"h", "t", "t", "p", "s", ":", "/", "/">>, <<"H", "T", "T", "P", ":", "/", "/">>, <<"h", "t", "t", "p", "s", ":", "/">>, <<>>}

ToHosts == {
    <<"w", "w", "w", ".", "a", "m", "a", "z", "o", "n", ".", "i", "n">>, <<"a", "m", "z", "n", ".", "t", "o">>, <<"W", "W", "W", ".", "A", "m", "a", "z", "o", "n", ".", "I", "N">>, <<"m", ".", "a", "m", "a", "z", "o", "n", ".", "i", "n", ":", "8", "0", "8", "0">>,
    <<"e", "v", "i", "l", ".", "c", "o", "m", "@", "w", "w", "w", ".", "a", "m", "a", "z", "o", "n", ".", "i", "n">>,
    <<"e", "v", "i", "l", ".", "c", "o", "m">>, <<"w", "w", "w", ".", "a", "m", "a", "z", "o", "n", ".", "i", "n", ".", "e", "v", "i", "l", ".", "c", "o", "m">>, <<"e", "v", "i", "l", "a", "m", "a", "z", "o", "n", ".", "i", "n">>,
    <<"w", "w", "w", ".", "a", "m", "a", "z", "o", "n", ".", "i", "n", "@", "e", "v", "i", "l", ".", "c", "o", "m">>, <<"a", "m", "a", "z", "o", "n", ".", "i", "n", ":", "x">>, <<>> }

ToPaths == {
    <<>>, <<"/", "g", "p", "/", "p", "r", "o", "d", "u", "c", "t", "/", "b", "0", "8", "n", "5", "w", "r", "w", "n", "w", "?", "x", "=", "1">>, <<"\\", "d", "p", "\\", "B", "0", "8", "N", "5", "W", "R", "W", "N", "W", "#", "t", "o", "p">>,
    <<"/", "d", "p", "/", "B", "0", "8", "N", "5", "W", "R", "W", "N", "W", "/", ".", ".", "/", "x", " ", "y">> }

ToInputs ==
    {s \o h \o p : s \in ToSchemes, h \in ToHosts, p \in ToPaths}
    \cup {<<" ", " ">>, <<" ", "h", "t", "t", "p", "s", ":", "/", "/", "w", "w", "w", ".", "a", "m", "a", "z", "o", "n", ".", "i", "n", "/", "d", "p", "/", "B", "0", "8", "N", "5", "W", "R", "W", "N", "W", " ", " ">>,
          <<"h", "t", "t", "p", "s", ":", "/", "/", "w", "w", "w", ".", "a", "m", "a", "\t", "z", "o", "n", ".", "i", "n", "/">>}

AsinInputs == {<<>>, <<"B", "0", "8", "N", "5", "W", "R", "W", "N", "W">>, <<" ", "/", "d", "p", "/", "b", "0", "8", "n", "5", "w", "r", "w", "n", "w", "/", "r", "e", "f", "=", "x", " ">>, <<"s", "h", "o", "r", "t">>}

TagInputs == {<<>>, <<" ", "m", "y", "t", "a", "g", "-", "2", "0", " ">>, <<"a", " ", "b", "&", "c">>}

Requests ==
    {[to |-> to, asin |-> asin, tag |-> tag,
      src |-> Label(a), created_by |-> Label(b), created_at |-> Label(c),
      xff |-> <<" ", "1", "0", ".", "0", ".", "0", ".", "1", ",", " ", "1", "0", ".", "0", ".", "0", ".", "2">>, ip |-> <<"1", "0", ".", "9", ".", "9", ".", "9">>, ua |-> <<"c", "u", "r", "l">>] :
        to \in ToInputs, asin \in AsinInputs, tag \in TagInputs,
        a \in {0, SrcMax + MaxOver}, b \in {0, CreatedByMax + MaxOver},
        c \in {0, CreatedAtMax + MaxOver}}

ExPrefixes == {<<>>, <<"X", "Y">>, <<"A", "B", "C", "D", "E", "F", "G", "H", "I", "J">>, <<"q", "1", "w", "2", "e", "3", "r", "4", "t", "5", "?">>,
               <<"h", "t", "t", "p", "s", ":", "/", "/", "w", "w", "w", ".", "a", "m", "a", "z", "o", "n", ".", "i", "n">>, <<" ">>}

ExMiddles == {<<>>, <<"B", "0", "8", "N", "5", "W", "R", "W", "N", "W">>, <<"/", "d", "p", "/", "b", "0", "8", "n", "5", "w", "r", "w", "n", "w">>, <<"/", "g", "p", "/", "p", "r", "o", "d", "u", "c", "t", "/", "B", "0", "8", "N", "5", "W", "R", "W", "N", "W">>,
              <<"/", "p", "r", "o", "d", "u", "c", "t", "/", "B", "0", "8", "N", "5", "W", "R", "W", "N", "W">>, <<"/", "D", "P", "/", "B", "0", "8", "N", "5", "W", "R", "W", "N", "W">>, <<"/", "d", "p", "/", "B", "0", "8", "N", "5">>,
              <<"/", "d", "p", "/", "B", "0", "8", "N", "5", "W", "R", "W", "N", "W", "X">>}

ExSuffixes == {<<>>, <<"/", "r", "e", "f", "=", "x">>, <<"?", "x", "=", "1">>, <<"Z">>, <<" ">>, <<"-", "x">>}

ExtractInputs == {p \o m \o s : p \in ExPrefixes, m \in ExMiddles, s \in ExSuffixes}

----------------------------------------------------------------------------
(* The handler serving one request *)

Init ==
    /\ pc = "idle"
    /\ req = NoRequest
    /\ res = NoResponse
    /\ writeState = "none"
    /\ docData = NoDoc
    /\ addCalls = 0
    /\ warnings = 0
    /\ exIn = <<>>
    /\ exOut = <<>>
    /\ exPc = "off"

Next ==
    \/ pc = "idle" /\ \E q \in Requests : go(q)
    \/ addResolved
    \/ addRejected

Spec == Init /\ [][Next]_vars

(* extractAsin called on its own *)

InitExtract ==
    /\ pc = "idle"
    /\ req = NoRequest
    /\ res = NoResponse
    /\ writeState = "none"
    /\ docData = NoDoc
    /\ addCalls = 0
    /\ warnings = 0
    /\ exIn \in ExtractInputs
    /\ exOut = <<>>
    /\ exPc = "ready"

callExtractAsin ==
    /\ exPc = "ready"
    /\ exOut' = extractAsin(exIn)
    /\ exPc' = "done"
    /\ UNCHANGED <<pc, req, res, writeState, docData, addCalls, warnings, exIn>>

NextExtract == callExtractAsin

SpecExtract == InitExtract /\ [][NextExtract]_vars

----------------------------------------------------------------------------
(* Properties *)

Responded == pc = "responded"

\* the parameters of the request as the handler reads them
To == trim(req.to)

TagParam == trim(req.tag)

\* the first n characters of s, all of s when it is shorter
Prefix(s, n) == SubSeq(s, 1, IF Len(s) < n THEN Len(s) ELSE n)

\* to starts with http:// or https://, whatever the case of the letters
StartsWithHttp(to) ==
    \/ toLowerCase(Prefix(to, 7)) = <<"h", "t", "t", "p", ":", "/", "/">>
    \/ toLowerCase(Prefix(to, 8)) = <<"h", "t", "t", "p", "s", ":", "/", "/">>

\* the response carries no redirect
NoRedirect == res.status # 302 /\ res.location = <<>>

\* C1: a request whose trimmed to is non-empty and whose parsed hostname is not in
\* the allowlist, or whose to cannot be parsed, is answered 400 and is never
\* redirected, whatever its scheme, path, asin and tag.
C1_HostOutsideAllowlistRejected ==
    (/\ Responded
     /\ To # <<>>
     /\ \/ ~safeUrl(To).ok
        \/ safeUrl(To).hostname \notin ALLOWLIST_HOSTS)
    => (res.status = 400 /\ NoRedirect)

\* C1 happens: a well-formed https URL of a host outside the allowlist, sent with an
\* extractable asin, was answered "Target host not allowed."
C1_Witness ==
    /\ Responded
    /\ StartsWithHttp(To)
    /\ safeUrl(To).ok
    /\ safeUrl(To).hostname \notin ALLOWLIST_HOSTS
    /\ extractAsin(req.asin) # <<>>
    /\ res.status = 400
    /\ res.body = HostNotAllowed

\* C2: a request whose trimmed to is non-empty and does not start with http:// or
\* https:// is answered 400 without a redirect, even when to would be an allowlisted
\* URL and even when asin holds an identifier: the identifier branch is no fallback.
C2_ToWithoutSchemeRejected ==
    (Responded /\ To # <<>> /\ ~StartsWithHttp(To))
    => (res.status = 400 /\ NoRedirect /\ addCalls = 0)

\* C2 happens: to lacks the scheme, would be allowlisted with "https://" put before
\* it, asin holds an identifier, and the answer was the 400 of the scheme test
C2_Witness ==
    /\ Responded
    /\ To # <<>>
    /\ ~StartsWithHttp(To)
    /\ safeUrl(<<"h", "t", "t", "p", "s", ":", "/", "/">> \o To).ok
    /\ safeUrl(<<"h", "t", "t", "p", "s", ":", "/", "/">> \o To).hostname \in ALLOWLIST_HOSTS
    /\ extractAsin(req.asin) # <<>>
    /\ res.status = 400
    /\ res.body = InvalidTo

\* C3: once the target is resolved and the record handed over, the response is the
\* 302 to the resolved target while the write is pending, after it succeeded and
\* after it failed; a failed write leaves one warning and no 500.
C3_ResponseIndependentOfWrite ==
    /\ writeState \in {"pending", "ok", "failed"}
        => /\ Responded
           /\ res = [status |-> 302, location |-> docData.targetUrl, body |-> "",
                     cacheControl |-> NoStore]
    /\ warnings = (IF writeState = "failed" THEN 1 ELSE 0)

\* C3 happens: the write failed after the redirect was issued
C3_Witness ==
    /\ writeState = "failed"
    /\ warnings = 1
    /\ res.status = 302
    /\ res.location # <<>>

\* C4: the record is handed to the persistence at most once per request, only for a
\* request that resolved (302), never again after a failure; a request answered 400
\* causes no write.
C4_AtMostOneWrite ==
    /\ addCalls <= 1
    /\ addCalls = 1 <=> writeState # "none"
    /\ addCalls = 1 => (Responded /\ res.status = 302)
    /\ (Responded /\ res.status = 400) => (addCalls = 0 /\ docData = NoDoc)

\* C4 happens: a write failed and add was called exactly once
C4_Witness ==
    /\ writeState = "failed"
    /\ addCalls = 1
    /\ res.status = 302

\* the effective tag of the identifier branch
EffectiveTag == IF TagParam # <<>> THEN TagParam ELSE DEFAULT_AFF_TAG

\* C5 as amended: with an empty to and an asin from which the extractor yields I, the
\* response is a 302 to https://www.amazon.in/dp/<I>?tag=<T percent-encoded>, T
\* being the trimmed tag or, when that is empty, shop4me0e-21; when the extractor
\* yields nothing the response is the 400 "Missing target".
C5_IdentifierBranchEncodedTag ==
    (Responded /\ To = <<>>)
    => LET I == extractAsin(req.asin)
       IN  IF I # <<>>
           THEN /\ res.status = 302
                /\ res.location = <<"h", "t", "t", "p", "s", ":", "/", "/", "w", "w", "w", ".", "a", "m", "a", "z", "o", "n", ".", "i", "n", "/", "d", "p", "/">> \o I \o <<"?", "t", "a", "g", "=">>
                                      \o encodeURIComponent(EffectiveTag)
           ELSE /\ res.status = 400
                /\ res.body = MissingTarget
                /\ NoRedirect

\* C5 as claimed: the Location is exactly https://www.amazon.in/dp/<I>?tag=<T>
C5_IdentifierBranchExactTag ==
    (Responded /\ To = <<>>)
    => LET I == extractAsin(req.asin)
       IN  IF I # <<>>
           THEN /\ res.status = 302
                /\ res.location = <<"h", "t", "t", "p", "s", ":", "/", "/", "w", "w", "w", ".", "a", "m", "a", "z", "o", "n", ".", "i", "n", "/", "d", "p", "/">> \o I \o <<"?", "t", "a", "g", "=">>
                                      \o EffectiveTag
           ELSE /\ res.status = 400
                /\ res.body = MissingTarget
                /\ NoRedirect

\* C5 happens: the identifier branch redirected with a tag that percent-encoding changes
C5_Witness ==
    /\ Responded
    /\ To = <<>>
    /\ extractAsin(req.asin) # <<>>
    /\ TagParam # <<>>
    /\ encodeURIComponent(TagParam) # TagParam
    /\ res.status = 302

\* C6: the identifier of the record is the extractor's result on the raw asin
\* parameter when that result is non-empty, otherwise its result on the resolved
\* destination, otherwise null, on either branch; a direct-URL request without asin
\* is redirected to the (normalised) URL and its record carries the identifier
\* found in that URL.
C6_RecordIdentifier ==
    writeState # "none"
    => LET fromParam == extractAsin(req.asin)
           fromTarget == extractAsin(res.location)
       IN  /\ docData.asin = (IF fromParam # <<>> THEN fromParam
                              ELSE IF fromTarget # <<>> THEN fromTarget
                              ELSE null)
           /\ (To # <<>> /\ req.asin = <<>>)
                => /\ res.status = 302
                   /\ res.location = safeUrl(To).href
                   /\ docData.targetUrl = res.location
                   /\ docData.asin = OrElse(extractAsin(safeUrl(To).href), null)

\* C6 happens: a direct-URL request without asin was redirected and its record
\* carries the identifier of the product page
C6_Witness ==
    /\ writeState # "none"
    /\ To # <<>>
    /\ req.asin = <<>>
    /\ res.status = 302
    /\ docData.asin = <<"B", "0", "8", "N", "5", "W", "R", "W", "N", "W">>
    /\ docData.asin = extractAsin(res.location)

\* the label kept from parameter p under the limit n
Kept(p, n) == IF p = <<>> THEN null ELSE Prefix(p, n)

\* C7: in every record the source label has at most 120 characters, the creator
\* label at most 200 and the timestamp label at most 80, each the prefix of its
\* parameter or null when that is empty; the labels, however long, do not change
\* the response, which is the one the request gets with its labels removed.
C7_LabelsTruncated ==
    /\ writeState # "none"
        => /\ docData.src = Kept(req.src, 120)
           /\ docData.created_by = Kept(req.created_by, 200)
           /\ docData.created_at = Kept(req.created_at, 80)
           /\ docData.src # null => Len(docData.src) <= 120
           /\ docData.created_by # null => Len(docData.created_by) <= 200
           /\ docData.created_at # null => Len(docData.created_at) <= 80
    /\ Responded
        => LET bare == ResolveTarget([req EXCEPT !.src = <<>>, !.created_by = <<>>,
                                                 !.created_at = <<>>])
           IN  /\ res.status = bare.status
               /\ res.location = bare.targetUrl
               /\ res.status \in {302, 400}

\* C7 happens: all three labels were longer than their limits, the request was
\* redirected and the record holds the cut labels
C7_Witness ==
    /\ writeState # "none"
    /\ Len(req.src) > 120
    /\ Len(req.created_by) > 200
    /\ Len(req.created_at) > 80
    /\ res.status = 302
    /\ Len(docData.src) = 120
    /\ Len(docData.created_by) = 200
    /\ Len(docData.created_at) = 80

\* position i of s starts a path-shaped identifier: /dp/, /gp/product/ or /product/,
\* ten alphanumeric characters, then "/", "?" or the end
PathShapedAt(s, i) == \E a \in 1..Len(PathPrefixes) : PathAsinAt(s, i, a)

\* the ten characters of the path-shaped identifier that starts at i
PathShapedId(s, i) ==
    LET a == CHOOSE b \in 1..Len(PathPrefixes) : PathAsinAt(s, i, b)
    IN  SubSeq(s, i + Len(PathPrefixes[a]), i + Len(PathPrefixes[a]) + AsinLen - 1)

\* C8: when the input holds a path-shaped identifier the result is the leftmost one,
\* uppercased, also when an earlier ten-character token would match the fallback;
\* the fallback decides the result only when no path-shaped identifier exists.
C8_PathPatternFirst ==
    exPc = "done"
    => LET s == trim(exIn)
           at == {i \in 1..Len(s) : PathShapedAt(s, i)}
       IN  IF at # {}
           THEN exOut = toUpperCase(PathShapedId(s, Min(at)))
           ELSE \/ exOut = <<>>
                \/ \E i \in 1..Len(s) :
                       /\ AsinAt(s, i)
                       /\ exOut = toUpperCase(SubSeq(s, i, i + AsinLen - 1))

\* C8 happens: the input holds a path-shaped identifier and, before it, another
\* token that the fallback pattern matches; the result is the path-shaped one
C8_Witness ==
    /\ exPc = "done"
    /\ LET s == trim(exIn)
       IN  \E i \in 1..Len(s) :
               /\ PathShapedAt(s, i)
               /\ exOut = toUpperCase(PathShapedId(s, i))
               /\ \E j \in 1..(i - 1) :
                      /\ AsinAt(s, j)
                      /\ toUpperCase(SubSeq(s, j, j + AsinLen - 1)) # exOut

\* position i of s starts a standalone token: ten alphanumeric characters followed
\* by "/", "?" or the end and not preceded by an alphanumeric character
StandaloneAt(s, i) == AsinAt(s, i) /\ (i = 1 \/ s[i - 1] \notin Alnum)

\* C9: when no path-shaped pattern matches, a non-empty result is a standalone
\* ten-character alphanumeric token of the input, uppercased, not a fragment of a
\* longer alphanumeric run, and an input without such a token yields the empty result.
C9_FallbackTokenStandalone ==
    (exPc = "done" /\ ~\E i \in 1..Len(trim(exIn)) : PathShapedAt(trim(exIn), i))
    => LET s == trim(exIn)
           tokens == {i \in 1..Len(s) : StandaloneAt(s, i)}
       IN  IF tokens = {} THEN exOut = <<>>
           ELSE \E i \in tokens : exOut = toUpperCase(SubSeq(s, i, i + AsinLen - 1))

\* C10: on either branch a 302 goes only to a URL that starts with http:// or
\* https:// and whose hostname, in lower case, is in the allowlist.
C10_RedirectOnlyToAllowlist ==
    res.status = 302
    => /\ \/ Prefix(res.location, 7) = <<"h", "t", "t", "p", ":", "/", "/">>
          \/ Prefix(res.location, 8) = <<"h", "t", "t", "p", "s", ":", "/", "/">>
       /\ safeUrl(res.location).ok
       /\ toLowerCase(safeUrl(res.location).hostname) \in ALLOWLIST_HOSTS
       /\ To = <<>> => safeUrl(res.location).hostname = <<"w", "w", "w", ".", "a", "m", "a", "z", "o", "n", ".", "i", "n">>

\* C10 happens: a direct URL whose userinfo names another host was redirected, and
\* the host of the Location is the allowlisted one
C10_Witness ==
    /\ res.status = 302
    /\ To # <<>>
    /\ "@" \in Range(res.location)
    /\ safeUrl(res.location).hostname = <<"w", "w", "w", ".", "a", "m", "a", "z", "o", "n", ".", "i", "n">>

====
